---------------------------- MODULE Spec2Model ----------------------------
(***************************************************************************)
(* A model of mlflow/tracking/client.py: MlflowClient.runs_to_pandas (the  *)
(* pivot of a list of runs into a table) and the facade methods that       *)
(* validate their arguments and forward them to the backend store.         *)
(*                                                                         *)
(* Python values are written as tagged tuples, so that None, a string and  *)
(* a float never compare equal by accident:                                *)
(*   None -> <<"None">>     'abc' -> <<"str", "abc">>                     *)
(*   0.2  -> <<"float", "0.2">>      nan -> <<"float", "nan">>            *)
(*   datetime.fromtimestamp(s) -> <<"datetime", s>>                        *)
(* A dict is a function whose domain is the set of its keys; a list is a   *)
(* sequence.                                                               *)
(***************************************************************************)
EXTENDS Integers, Sequences, FiniteSets, TLC

VARIABLES
    runs,       \* runs_to_pandas: the argument, a sequence of Run records
    i,          \* number of runs the loop has processed so far
    info,       \* the dict of the five fixed-column lists
    params,     \* key -> list of per-row values
    metrics,    \* key -> list of per-row values
    tags,       \* key -> list of per-row values
    data,       \* the dict handed to pd.DataFrame (empty until assembled)
    pc,         \* "loop" while iterating, "done" once data is assembled
    request,    \* the facade method called last, with its arguments
    store_calls,\* the calls self.store received while serving it
    outcome,    \* "returned" or "raised" ("none" before any call)
    clock,      \* the value time.time() returns, in milliseconds
    calls,      \* concurrent runs_to_pandas calls: caller -> runs, i, pc, data
    frames      \* frame -> the info, params, metrics and tags of a call

pivot_vars == <<runs, i, info, params, metrics, tags, data, pc>>
facade_vars == <<request, store_calls, outcome, clock>>
concurrent_vars == <<calls, frames>>
vars == <<pivot_vars, facade_vars, concurrent_vars>>

-----------------------------------------------------------------------------
(* Python values *)

None == <<"None">>
Str(s) == <<"str", s>>
Float(x) == <<"float", x>>
NaN == Float("nan")
DateTime(s) == <<"datetime", s>>
PyInt(n) == <<"int", n>>
Dict(d) == <<"dict", d>>

\* bool(v): None, 0, '' and {} are false
Truthy(v) ==
    ~(v = None \/ v = PyInt(0) \/ v = Str("") \/ (v[1] = "dict" /\ DOMAIN v[2] = {}))

DigitStr(d) == SubSeq("0123456789", d + 1, d + 1)

RECURSIVE NatStr(_)
NatStr(n) == IF n < 10 THEN DigitStr(n) ELSE NatStr(n \div 10) \o DigitStr(n % 10)

\* str(v)
PyStr(v) ==
    IF v[1] = "str" THEN v
    ELSE IF v[1] = "int" THEN Str(IF v[2] < 0 THEN "-" \o NatStr(-v[2]) ELSE NatStr(v[2]))
    ELSE IF v[1] = "float" THEN Str(v[2])
    ELSE Str("None")

EmptyDict == <<>>

\* dict.get(key, default)
DictGet(d, key, default) == IF key \in DOMAIN d THEN d[key] ELSE default

\* [x] * n
RECURSIVE Repeat(_, _)
Repeat(x, n) == IF n <= 0 THEN <<>> ELSE Append(Repeat(x, n - 1), x)

\* str.startswith
StartsWith(s, prefix) ==
    /\ Len(s) >= Len(prefix)
    /\ SubSeq(s, 1, Len(prefix)) = prefix

-----------------------------------------------------------------------------
(* runs_to_pandas *)

MillisPerSecond == 1000

\* seeded fault: an absent param is padded with the metric sentinel
PARAM_NULL_NaN == NaN

PARAM_NULL == None
\* seeded fault: the metrics sentinel copied from the params block
METRIC_NULL_None == None
METRIC_NULL == NaN
TAG_NULL == None

RESERVED_PREFIX == "mlflow."

\* seeded fault: the milliseconds are not divided by 1e3
EpochSeconds_NoDivision(start_time) == start_time

\* int(start_time / 1e3): the quotient truncated toward zero
EpochSeconds(start_time) ==
    IF start_time >= 0
    THEN start_time \div MillisPerSecond
    ELSE -((-start_time) \div MillisPerSecond)

InfoInit ==
    [date |-> <<>>, run_id |-> <<>>, run_name |-> <<>>,
     parent_run_id |-> <<>>, user_id |-> <<>>]

\* seeded fault: run_name and parent_run_id read each other's tag
InfoAppend_SwappedTags(inf, run) ==
    [date          |-> Append(inf.date, DateTime(EpochSeconds(run.info.start_time))),
     run_id        |-> Append(inf.run_id, run.info.run_id),
     run_name      |-> Append(inf.run_name,
                              DictGet(run.data.tags, "mlflow.parentRunId", None)),
     parent_run_id |-> Append(inf.parent_run_id,
                              DictGet(run.data.tags, "mlflow.runName", None)),
     user_id       |-> Append(inf.user_id, run.info.user_id)]

\* the five info[...].append(...) calls of one iteration
InfoAppend(inf, run) ==
    [date          |-> Append(inf.date, DateTime(EpochSeconds(run.info.start_time))),
     run_id        |-> Append(inf.run_id, run.info.run_id),
     run_name      |-> Append(inf.run_name,
                              DictGet(run.data.tags, "mlflow.runName", None)),
     parent_run_id |-> Append(inf.parent_run_id,
                              DictGet(run.data.tags, "mlflow.parentRunId", None)),
     user_id       |-> Append(inf.user_id, run.info.user_id)]

\* seeded fault: nothing is appended for a tracked key the run lacks
AppendTracked_SkipMissing(cols, run_map, null) ==
    [key \in DOMAIN cols |->
        IF key \in DOMAIN run_map THEN Append(cols[key], run_map[key]) ELSE cols[key]]

\* for key in <kind>_keys: append the run's value, or the kind's null
AppendTracked(cols, run_map, null) ==
    [key \in DOMAIN cols |->
        Append(cols[key], IF key \in DOMAIN run_map THEN run_map[key] ELSE null)]

\* seeded fault: the back-fill counts the current run too ([null]*(i + 1))
BackFill_OneBased(cols, new, run_map, null, n) ==
    [key \in DOMAIN cols \cup new |->
        IF key \in new THEN Append(Repeat(null, n + 1), run_map[key]) ELSE cols[key]]

\* for k in new: cols[k] = [null]*n; cols[k].append(run_map[k])
BackFill(cols, new, run_map, null, n) ==
    [key \in DOMAIN cols \cup new |->
        IF key \in new THEN Append(Repeat(null, n), run_map[key]) ELSE cols[key]]

\* seeded fault: new keys are picked up from the first run only
UpdateParams_FirstRunOnly(cols, run, n) ==
    LET appended == [key \in DOMAIN cols |->
                        Append(cols[key], DictGet(run.data.params, key, None))]
        new_params == IF n = 0 THEN DOMAIN run.data.params ELSE {}
    IN  [key \in DOMAIN appended \cup new_params |->
            IF key \in new_params THEN <<run.data.params[key]>> ELSE appended[key]]

UpdateParams(cols, run, n) ==
    LET appended == AppendTracked(cols, run.data.params, PARAM_NULL)
        new_params == DOMAIN run.data.params \ DOMAIN appended
    IN  BackFill(appended, new_params, run.data.params, PARAM_NULL, n)

UpdateMetrics(cols, run, n) ==
    LET appended == AppendTracked(cols, run.data.metrics, METRIC_NULL)
        new_metrics == DOMAIN run.data.metrics \ DOMAIN appended
    IN  BackFill(appended, new_metrics, run.data.metrics, METRIC_NULL, n)

\* seeded fault: the startswith("mlflow.") test is missing
UpdateTags_NoReservedFilter(cols, run, n) ==
    LET appended == [key \in DOMAIN cols |->
                        Append(cols[key], DictGet(run.data.tags, key, None))]
        new_tags == DOMAIN run.data.tags \ DOMAIN appended
    IN  [key \in DOMAIN appended \cup new_tags |->
            IF key \in new_tags THEN Append(Repeat(None, n), run.data.tags[key])
            ELSE appended[key]]

UpdateTags(cols, run, n) ==
    LET appended == AppendTracked(cols, run.data.tags, TAG_NULL)
        new_tags == DOMAIN run.data.tags \ DOMAIN appended
        kept == {t \in new_tags : ~StartsWith(t, RESERVED_PREFIX)}
    IN  BackFill(appended, kept, run.data.tags, TAG_NULL, n)

\* data = {}; data.update(info); data['metrics.' + key] = metrics[key]; ...
Prefixed(prefix, cols) ==
    LET names == {prefix \o key : key \in DOMAIN cols}
    IN  [c \in names |->
            cols[CHOOSE key \in DOMAIN cols : prefix \o key = c]]

\* seeded fault: the params columns are named 'param.<key>'
Assemble_ParamPrefixTypo(inf, ps, ms, ts) ==
    Prefixed("tags.", ts) @@ Prefixed("param.", ps)
        @@ Prefixed("metrics.", ms) @@ inf

Assemble(inf, ps, ms, ts) ==
    Prefixed("tags.", ts) @@ Prefixed("params.", ps)
        @@ Prefixed("metrics.", ms) @@ inf

\* one iteration of "for i, run in enumerate(runs)"
LoopBody(st, run, n) ==
    [info    |-> InfoAppend(st.info, run),
     params  |-> UpdateParams(st.params, run, n),
     metrics |-> UpdateMetrics(st.metrics, run, n),
     tags    |-> UpdateTags(st.tags, run, n)]

LoopInit ==
    [info |-> InfoInit, params |-> EmptyDict, metrics |-> EmptyDict,
     tags |-> EmptyDict]

\* the state of the loop after its first n iterations over rs
RECURSIVE LoopAfter(_, _)
LoopAfter(rs, n) ==
    IF n = 0 THEN LoopInit ELSE LoopBody(LoopAfter(rs, n - 1), rs[n], n - 1)

\* the whole method, as a function of its argument
RunsToPandas(rs) ==
    LET st == LoopAfter(rs, Len(rs))
    IN  Assemble(st.info, st.params, st.metrics, st.tags)

-----------------------------------------------------------------------------
(* Inputs *)

MaxRuns == 2

\* RunInfo: run_id, user_id and start_time (epoch milliseconds)
RunInfos ==
    {[run_id |-> Str("uuid"), user_id |-> Str("user_id"), start_time |-> 0],
     [run_id |-> Str("uuid2"), user_id |-> Str("user_id2"), start_time |-> 2999]}

ParamDicts ==
    {EmptyDict,
     "param" :> Str("value"),
     "k" :> Str("v"),
     "param" :> Str("val") @@ "k" :> Str("v"),
     "param2" :> Str("val") @@ "k" :> Str("v")}

\* a logged metric value is any 64-bit float, nan included
MetricDicts ==
    {EmptyDict,
     "mse" :> Float("0.2"),
     "mse" :> NaN,
     "mse" :> Float("0.6") @@ "loss" :> Float("1.2")}

TagDicts ==
    {EmptyDict,
     "tag" :> Str("value"),
     "mlflow.runName" :> Str("name"),
     "mlflow.parentRunId" :> Str("uuid"),
     "tag" :> Str("v2") @@ "mlflow.user" :> Str("u")}

\* RunData: runs that carry one kind of data, and runs that carry all three
RunDatas ==
    {[params |-> p, metrics |-> EmptyDict, tags |-> EmptyDict] : p \in ParamDicts}
    \cup {[params |-> EmptyDict, metrics |-> m, tags |-> EmptyDict] : m \in MetricDicts}
    \cup {[params |-> EmptyDict, metrics |-> EmptyDict, tags |-> t] : t \in TagDicts}
    \cup {[params  |-> "param" :> Str("value"),
           metrics |-> "mse" :> Float("0.2"),
           tags    |-> "tag" :> Str("value") @@ "mlflow.runName" :> Str("name")],
          [params  |-> "param" :> Str("val") @@ "k" :> Str("v"),
           metrics |-> "mse" :> Float("0.6") @@ "loss" :> Float("1.2"),
           tags    |-> "tag" :> Str("v2") @@ "mlflow.user" :> Str("u")]}

Runs == {[info |-> inf, data |-> d] : inf \in RunInfos, d \in RunDatas}

RunLists == UNION {[1..n -> Runs] : n \in 0..MaxRuns}

-----------------------------------------------------------------------------
(* runs_to_pandas as a state machine: one action per loop iteration *)

PivotInit ==
    /\ runs \in RunLists
    /\ i = 0
    /\ info = LoopInit.info
    /\ params = LoopInit.params
    /\ metrics = LoopInit.metrics
    /\ tags = LoopInit.tags
    /\ data = EmptyDict
    /\ pc = "loop"
    /\ request = [method |-> "none"]
    /\ store_calls = <<>>
    /\ outcome = "none"
    /\ clock = 1500
    /\ calls = <<>>
    /\ frames = <<>>

\* the body of the for loop, for run number i (0-based)
LoopStep ==
    /\ pc = "loop"
    /\ i < Len(runs)
    /\ LET st == LoopBody([info |-> info, params |-> params,
                           metrics |-> metrics, tags |-> tags], runs[i + 1], i)
       IN  /\ info' = st.info
           /\ params' = st.params
           /\ metrics' = st.metrics
           /\ tags' = st.tags
    /\ i' = i + 1
    /\ UNCHANGED <<runs, data, pc>>
    /\ UNCHANGED facade_vars
    /\ UNCHANGED concurrent_vars

\* the loop is exhausted: build data and return the DataFrame
Return ==
    /\ pc = "loop"
    /\ i = Len(runs)
    /\ data' = Assemble(info, params, metrics, tags)
    /\ pc' = "done"
    /\ UNCHANGED <<runs, i, info, params, metrics, tags>>
    /\ UNCHANGED facade_vars
    /\ UNCHANGED concurrent_vars

PivotNext == LoopStep \/ Return

PivotSpec == PivotInit /\ [][PivotNext]_vars

-----------------------------------------------------------------------------
(* The facade.  Every method is one action: it validates, then makes at     *)
(* most one call to self.store.  The validators and RunStatus live in       *)
(* mlflow.utils.validation and mlflow.entities; they are pass / fail        *)
(* predicates here.                                                         *)

MaxTicks == 2

WellFormedRunIds == {Str("a1b2c3")}
WellFormedNames == {Str("name")}
WellFormedExperimentNames == {Str("exp")}
WellFormedLocations == {None, Str("s3://bucket")}

_validate_run_id(run_id) == run_id \in WellFormedRunIds
_validate_param_name(name) == name \in WellFormedNames
_validate_tag_name(name) == name \in WellFormedNames
_validate_experiment_name(name) == name \in WellFormedExperimentNames
_validate_experiment_artifact_location(location) == location \in WellFormedLocations
_validate_metric(key, value, timestamp, step) ==
    /\ key \in WellFormedNames
    /\ value[1] = "float"
    /\ timestamp[1] = "int" /\ timestamp[2] >= 0
    /\ step[1] = "int"

\* RunStatus.to_string(RunStatus.FINISHED) and RunStatus.from_string
RunStatusFinished == Str("FINISHED")
RunStatusFromString(status) == <<"RunStatus", status[2]>>

\* int(time.time() * 1000) and int(time.time())
TimeMillis == PyInt(clock)
TimeSeconds == PyInt(clock \div 1000)

\* the method returned after one call to the store, or raised before any
Served(req, valid, call) ==
    /\ request' = req
    /\ store_calls' = IF valid THEN <<call>> ELSE <<>>
    /\ outcome' = IF valid THEN "returned" ELSE "raised"
    /\ UNCHANGED clock
    /\ UNCHANGED pivot_vars
    /\ UNCHANGED concurrent_vars

StoreCall(method, kwargs) == [method |-> method, kwargs |-> kwargs]

get_run(run_id) ==
    /\ pc = "idle"
    /\ Served([method |-> "get_run", run_id |-> run_id],
              _validate_run_id(run_id),
              StoreCall("get_run", [run_id |-> run_id]))

create_run(experiment_id, start_time, tags_arg) ==
    LET tags_dict == IF Truthy(tags_arg) THEN tags_arg[2] ELSE EmptyDict
        user_id == DictGet(tags_dict, "mlflow.user", Str("unknown"))
    IN  /\ pc = "idle"
        /\ Served([method |-> "create_run", experiment_id |-> experiment_id,
                   start_time |-> start_time, tags |-> tags_arg],
                  TRUE,
                  StoreCall("create_run",
                      [experiment_id |-> experiment_id,
                       user_id |-> user_id,
                       start_time |-> IF Truthy(start_time) THEN start_time ELSE TimeMillis,
                       tags |-> {[key |-> key, value |-> tags_dict[key]] :
                                    key \in DOMAIN tags_dict}]))

create_experiment(name, artifact_location) ==
    /\ pc = "idle"
    /\ Served([method |-> "create_experiment", name |-> name,
               artifact_location |-> artifact_location],
              /\ _validate_experiment_name(name)
              /\ _validate_experiment_artifact_location(artifact_location),
              StoreCall("create_experiment",
                  [name |-> name, artifact_location |-> artifact_location]))

delete_experiment(experiment_id) ==
    /\ pc = "idle"
    /\ Served([method |-> "delete_experiment", experiment_id |-> experiment_id],
              TRUE,
              StoreCall("delete_experiment", [experiment_id |-> experiment_id]))

restore_experiment(experiment_id) ==
    /\ pc = "idle"
    /\ Served([method |-> "restore_experiment", experiment_id |-> experiment_id],
              TRUE,
              StoreCall("restore_experiment", [experiment_id |-> experiment_id]))

rename_experiment(experiment_id, new_name) ==
    /\ pc = "idle"
    /\ Served([method |-> "rename_experiment", experiment_id |-> experiment_id,
               new_name |-> new_name],
              TRUE,
              StoreCall("rename_experiment",
                  [experiment_id |-> experiment_id, new_name |-> new_name]))

log_metric(run_id, key, value, timestamp_arg, step_arg) ==
    LET timestamp == IF timestamp_arg # None THEN timestamp_arg ELSE TimeSeconds
        step == IF step_arg # None THEN step_arg ELSE PyInt(0)
    IN  /\ pc = "idle"
        /\ Served([method |-> "log_metric", run_id |-> run_id, key |-> key,
                   value |-> value, timestamp |-> timestamp_arg, step |-> step_arg],
                  _validate_metric(key, value, timestamp, step),
                  StoreCall("log_metric",
                      [run_id |-> run_id,
                       metric |-> [key |-> key, value |-> value,
                                   timestamp |-> timestamp, step |-> step]]))

\* seeded fault: the parameter name is not validated
log_param_NoValidation(run_id, key, value) ==
    /\ pc = "idle"
    /\ Served([method |-> "log_param", run_id |-> run_id, key |-> key, value |-> value],
              TRUE,
              StoreCall("log_param",
                  [run_id |-> run_id, param |-> [key |-> key, value |-> PyStr(value)]]))

log_param(run_id, key, value) ==
    /\ pc = "idle"
    /\ Served([method |-> "log_param", run_id |-> run_id, key |-> key, value |-> value],
              _validate_param_name(key),
              StoreCall("log_param",
                  [run_id |-> run_id, param |-> [key |-> key, value |-> PyStr(value)]]))

set_tag(run_id, key, value) ==
    /\ pc = "idle"
    /\ Served([method |-> "set_tag", run_id |-> run_id, key |-> key, value |-> value],
              _validate_tag_name(key),
              StoreCall("set_tag",
                  [run_id |-> run_id, tag |-> [key |-> key, value |-> PyStr(value)]]))

log_batch(run_id, metric_list, param_list, tag_list) ==
    /\ pc = "idle"
    /\ Served([method |-> "log_batch", run_id |-> run_id, metrics |-> metric_list,
               params |-> param_list, tags |-> tag_list],
              /\ \A n \in 1..Len(metric_list) :
                    _validate_metric(metric_list[n].key, metric_list[n].value,
                                     metric_list[n].timestamp, metric_list[n].step)
              /\ \A n \in 1..Len(param_list) : _validate_param_name(param_list[n].key)
              /\ \A n \in 1..Len(tag_list) : _validate_tag_name(tag_list[n].key),
              StoreCall("log_batch",
                  [run_id |-> run_id, metrics |-> metric_list,
                   params |-> param_list, tags |-> tag_list]))

set_terminated(run_id, status_arg, end_time_arg) ==
    LET end_time == IF Truthy(end_time_arg) THEN end_time_arg ELSE TimeMillis
        status == IF Truthy(status_arg) THEN status_arg ELSE RunStatusFinished
    IN  /\ pc = "idle"
        /\ Served([method |-> "set_terminated", run_id |-> run_id,
                   status |-> status_arg, end_time |-> end_time_arg],
                  TRUE,
                  StoreCall("update_run_info",
                      [run_id |-> run_id,
                       run_status |-> RunStatusFromString(status),
                       end_time |-> end_time]))

delete_run(run_id) ==
    /\ pc = "idle"
    /\ Served([method |-> "delete_run", run_id |-> run_id],
              TRUE,
              StoreCall("delete_run", [run_id |-> run_id]))

restore_run(run_id) ==
    /\ pc = "idle"
    /\ Served([method |-> "restore_run", run_id |-> run_id],
              TRUE,
              StoreCall("restore_run", [run_id |-> run_id]))

\* a Python list, an argument left out of the call, and the names
\* search_runs takes its defaults from
List(xs) == <<"list", xs>>
Omitted == <<"omitted">>
ACTIVE_ONLY == <<"ViewType", "ACTIVE_ONLY">>
SEARCH_MAX_RESULTS_DEFAULT == <<"name", "SEARCH_MAX_RESULTS_DEFAULT">>

\* the value a parameter is bound to: the argument, or its default
Bound(arg, default) == IF arg = Omitted THEN default ELSE arg

\* isinstance(v, int) or isinstance(v, str)
IsIntOrStr(v) == v[1] = "int" \/ v[1] = "str"

\* seeded fault: only an int id is wrapped into a list
search_runs_IntOnly(experiment_ids, filter_string, run_view_type, max_results, order_by) ==
    /\ pc = "idle"
    /\ Served([method |-> "search_runs", experiment_ids |-> experiment_ids,
               filter_string |-> filter_string, run_view_type |-> run_view_type,
               max_results |-> max_results, order_by |-> order_by],
              TRUE,
              StoreCall("search_runs",
                  [experiment_ids |-> IF experiment_ids[1] = "int"
                                      THEN List(<<experiment_ids>>) ELSE experiment_ids,
                   filter_string |-> Bound(filter_string, Str("")),
                   run_view_type |-> Bound(run_view_type, ACTIVE_ONLY),
                   max_results |-> Bound(max_results, SEARCH_MAX_RESULTS_DEFAULT),
                   order_by |-> Bound(order_by, None)]))

search_runs(experiment_ids, filter_string, run_view_type, max_results, order_by) ==
    /\ pc = "idle"
    /\ Served([method |-> "search_runs", experiment_ids |-> experiment_ids,
               filter_string |-> filter_string, run_view_type |-> run_view_type,
               max_results |-> max_results, order_by |-> order_by],
              TRUE,
              StoreCall("search_runs",
                  [experiment_ids |-> IF IsIntOrStr(experiment_ids)
                                      THEN List(<<experiment_ids>>) ELSE experiment_ids,
                   filter_string |-> Bound(filter_string, Str("")),
                   run_view_type |-> Bound(run_view_type, ACTIVE_ONLY),
                   max_results |-> Bound(max_results, SEARCH_MAX_RESULTS_DEFAULT),
                   order_by |-> Bound(order_by, None)]))

\* time passes between two calls
Tick ==
    /\ pc = "idle"
    /\ clock + 744 <= 1500 + 744 * MaxTicks
    /\ clock' = clock + 744
    /\ UNCHANGED <<request, store_calls, outcome>>
    /\ UNCHANGED pivot_vars
    /\ UNCHANGED concurrent_vars

(* Arguments *)

RunIdArgs == WellFormedRunIds \cup {Str("not a run id")}
NameArgs == WellFormedNames \cup {Str("bad*name")}
ExperimentNameArgs == WellFormedExperimentNames \cup {Str("")}
LocationArgs == WellFormedLocations \cup {Str("bad#location")}
ExperimentIdArgs == {Str("0")}
TimeArgs == {None, PyInt(0), PyInt(5)}
TimestampArgs == {None, PyInt(0), PyInt(-1)}
StepArgs == {None, PyInt(5)}
MetricValueArgs == {Float("0.2"), Str("high")}
ValueArgs == {Str("value"), PyInt(12)}
StatusArgs == {None, Str("FAILED")}
TagsArgs ==
    {None, Dict(EmptyDict), Dict("mlflow.user" :> Str("user")),
     Dict("other-key" :> Str("other-value"))}

GoodMetric == [key |-> Str("name"), value |-> Float("0.2"), timestamp |-> PyInt(0), step |-> PyInt(0)]
BadMetric == [key |-> Str("name"), value |-> Str("high"), timestamp |-> PyInt(0), step |-> PyInt(0)]
MetricListArgs == {<<>>, <<GoodMetric>>, <<GoodMetric, BadMetric>>}
ParamListArgs ==
    {<<>>, <<[key |-> Str("name"), value |-> Str("value")]>>,
     <<[key |-> Str("bad*name"), value |-> Str("value")]>>}
TagListArgs ==
    {<<>>, <<[key |-> Str("name"), value |-> Str("value")]>>,
     <<[key |-> Str("name"), value |-> Str("value")],
       [key |-> Str("bad*name"), value |-> Str("value")]>>}

\* experiment_ids: a list of ids, or a single int or string id
ExperimentIdsArgs ==
    {PyInt(123), Str("abc"), List(<<PyInt(1), PyInt(2), PyInt(3)>>),
     List(<<Str("a"), Str("b"), Str("c")>>), List(<<PyInt(5)>>), List(<<>>)}
FilterStringArgs == {Omitted, Str("my filter")}
ViewTypeArgs == {Omitted, <<"ViewType", "DELETED_ONLY">>, <<"ViewType", "ALL">>}
MaxResultsArgs == {Omitted, PyInt(2876)}
OrderByArgs == {Omitted, List(<<Str("a"), Str("b")>>)}

FacadeInit ==
    /\ request = [method |-> "none"]
    /\ store_calls = <<>>
    /\ outcome = "none"
    /\ clock = 1500
    /\ calls = <<>>
    /\ frames = <<>>
    /\ runs = <<>>
    /\ i = 0
    /\ info = LoopInit.info
    /\ params = LoopInit.params
    /\ metrics = LoopInit.metrics
    /\ tags = LoopInit.tags
    /\ data = EmptyDict
    /\ pc = "idle"

FacadeNext ==
    \/ \E run_id \in RunIdArgs : get_run(run_id)
    \/ \E experiment_id \in ExperimentIdArgs, start_time \in TimeArgs, t \in TagsArgs :
          create_run(experiment_id, start_time, t)
    \/ \E name \in ExperimentNameArgs, location \in LocationArgs :
          create_experiment(name, location)
    \/ \E experiment_id \in ExperimentIdArgs : delete_experiment(experiment_id)
    \/ \E experiment_id \in ExperimentIdArgs : restore_experiment(experiment_id)
    \/ \E experiment_id \in ExperimentIdArgs, name \in ExperimentNameArgs :
          rename_experiment(experiment_id, name)
    \/ \E run_id \in RunIdArgs, key \in NameArgs, value \in MetricValueArgs,
          timestamp \in TimestampArgs, step \in StepArgs :
          log_metric(run_id, key, value, timestamp, step)
    \/ \E run_id \in RunIdArgs, key \in NameArgs, value \in ValueArgs :
          log_param(run_id, key, value)
    \/ \E run_id \in RunIdArgs, key \in NameArgs, value \in ValueArgs :
          set_tag(run_id, key, value)
    \/ \E run_id \in RunIdArgs, ms \in MetricListArgs, ps \in ParamListArgs,
          ts \in TagListArgs :
          log_batch(run_id, ms, ps, ts)
    \/ \E run_id \in RunIdArgs, status \in StatusArgs, end_time \in TimeArgs :
          set_terminated(run_id, status, end_time)
    \/ \E run_id \in RunIdArgs : delete_run(run_id)
    \/ \E run_id \in RunIdArgs : restore_run(run_id)
    \/ \E experiment_ids \in ExperimentIdsArgs, filter_string \in FilterStringArgs,
          run_view_type \in ViewTypeArgs, max_results \in MaxResultsArgs,
          order_by \in OrderByArgs :
          search_runs(experiment_ids, filter_string, run_view_type, max_results, order_by)
    \/ Tick

FacadeSpec == FacadeInit /\ [][FacadeNext]_vars

-----------------------------------------------------------------------------
(* Two runs_to_pandas calls in progress at once, on disjoint inputs, their  *)
(* loop iterations interleaved in any order.  info, params, metrics and     *)
(* tags are created by each call, so every call has a frame of its own.     *)

Callers == {1, 2}

\* seeded fault: the four dicts are shared by all calls (made once, not per call)
Frame_Shared(caller) == 1

\* the frame that holds the dicts a call works on
Frame(caller) == caller

\* the runs a caller passes: its own Run objects, none shared with the other
ConcurrentDatas ==
    {[params  |-> "param" :> Str("value"),
      metrics |-> "mse" :> Float("0.2"),
      tags    |-> "tag" :> Str("value") @@ "mlflow.runName" :> Str("name")],
     [params  |-> "param" :> Str("val") @@ "k" :> Str("v"),
      metrics |-> "mse" :> Float("0.6") @@ "loss" :> Float("1.2"),
      tags    |-> "tag" :> Str("v2") @@ "mlflow.user" :> Str("u")],
     [params |-> "k" :> Str("v"), metrics |-> EmptyDict, tags |-> EmptyDict],
     [params |-> EmptyDict, metrics |-> "mse" :> NaN, tags |-> EmptyDict]}

ConcurrentRuns(caller) ==
    {[info |-> [run_id |-> Str("uuid" \o NatStr(caller)),
                user_id |-> Str("user_id" \o NatStr(caller)),
                start_time |-> 2999 * (caller - 1)],
      data |-> d] : d \in ConcurrentDatas}

ConcurrentRunLists(caller) ==
    UNION {[1..n -> ConcurrentRuns(caller)] : n \in 0..MaxRuns}

ConcurrentInit ==
    /\ calls \in {cs \in [Callers -> [runs : UNION {ConcurrentRunLists(c) : c \in Callers},
                                      i : {0}, pc : {"loop"}, data : {EmptyDict}]] :
                     \A c \in Callers : cs[c].runs \in ConcurrentRunLists(c)}
    /\ frames = [f \in Callers |-> LoopInit]
    /\ request = [method |-> "none"]
    /\ store_calls = <<>>
    /\ outcome = "none"
    /\ clock = 1500
    /\ runs = <<>>
    /\ i = 0
    /\ info = LoopInit.info
    /\ params = LoopInit.params
    /\ metrics = LoopInit.metrics
    /\ tags = LoopInit.tags
    /\ data = EmptyDict
    /\ pc = "idle"

\* one loop iteration of one caller
ConcurrentLoopStep(caller) ==
    /\ calls[caller].pc = "loop"
    /\ calls[caller].i < Len(calls[caller].runs)
    /\ frames' = [frames EXCEPT ![Frame(caller)] =
                     LoopBody(@, calls[caller].runs[calls[caller].i + 1],
                              calls[caller].i)]
    /\ calls' = [calls EXCEPT ![caller].i = @ + 1]
    /\ UNCHANGED <<pivot_vars, facade_vars>>

\* one caller's loop is exhausted: it builds data and returns
ConcurrentReturn(caller) ==
    /\ calls[caller].pc = "loop"
    /\ calls[caller].i = Len(calls[caller].runs)
    /\ calls' = [calls EXCEPT ![caller].pc = "done",
                              ![caller].data =
                                  LET st == frames[Frame(caller)]
                                  IN  Assemble(st.info, st.params, st.metrics, st.tags)]
    /\ UNCHANGED frames
    /\ UNCHANGED <<pivot_vars, facade_vars>>

ConcurrentNext ==
    \E caller \in Callers : ConcurrentLoopStep(caller) \/ ConcurrentReturn(caller)

ConcurrentSpec == ConcurrentInit /\ [][ConcurrentNext]_vars

-----------------------------------------------------------------------------
(* What the properties below read off a table and off the input.  These are *)
(* written from the description of the result, not from the loop.          *)

FixedColumns == {"date", "run_id", "run_name", "parent_run_id", "user_id"}

Kinds == {"metrics", "params", "tags"}

ColumnPrefix(kind) == kind \o "."

\* the null sentinel a column of this kind is padded with
NullOf(kind) == IF kind = "metrics" THEN <<"float", "nan">> ELSE <<"None">>

IsReserved(key) == StartsWith(key, "mlflow.")

\* the keys of one kind that a run contributes to the dynamic columns
PivotKeys(run, kind) ==
    IF kind = "tags"
    THEN {key \in DOMAIN run.data.tags : ~IsReserved(key)}
    ELSE DOMAIN run.data[kind]

AllKeys(rs, kind) == UNION {PivotKeys(rs[j], kind) : j \in 1..Len(rs)}

DynamicColumns(rs) ==
    UNION {{ColumnPrefix(kind) \o key : key \in AllKeys(rs, kind)} : kind \in Kinds}

\* the kind and the key a dynamic column name stands for
ColumnKind(c) ==
    IF StartsWith(c, "metrics.") THEN "metrics"
    ELSE IF StartsWith(c, "params.") THEN "params"
    ELSE IF StartsWith(c, "tags.") THEN "tags"
    ELSE "fixed"

ColumnKey(c) == SubSeq(c, Len(ColumnPrefix(ColumnKind(c))) + 1, Len(c))

\* the cell a run should show in a dynamic column
ExpectedCell(run, c) ==
    LET kind == ColumnKind(c)
        key == ColumnKey(c)
    IN  IF key \in DOMAIN run.data[kind] THEN run.data[kind][key] ELSE NullOf(kind)

Returned == pc = "done"

-----------------------------------------------------------------------------
(* C1: the returned table's columns are exactly the five fixed columns plus *)
(* one 'metrics.<k>' / 'params.<k>' / 'tags.<k>' column per key that occurs *)
(* in some run's metrics / params / non-reserved tags; the empty input      *)
(* gives zero rows and exactly the five fixed columns.                      *)
C1_ColumnSet ==
    Returned =>
        /\ DOMAIN data = FixedColumns \cup DynamicColumns(runs)
        /\ runs = <<>> =>
              /\ DOMAIN data = FixedColumns
              /\ \A c \in DOMAIN data : data[c] = <<>>

C1_Witness ==
    /\ Returned
    /\ Len(runs) = 2
    /\ {"metrics.loss", "params.k", "tags.tag"} \subseteq DOMAIN data
    /\ "mlflow.user" \in DOMAIN runs[2].data.tags
    /\ DOMAIN runs[1].data.params = {}

(* C2: every cell of a dynamic column is the row's run's own value for the  *)
(* key when the run has it, and otherwise NaN in a metrics column and None  *)
(* in a params or tags column.                                              *)
C2_CellValues ==
    Returned =>
        \A c \in DOMAIN data \ FixedColumns :
            /\ ColumnKind(c) \in Kinds
            /\ Len(data[c]) = Len(runs)
            /\ \A j \in 1..Len(runs) : data[c][j] = ExpectedCell(runs[j], c)

C2_Witness ==
    /\ Returned
    /\ Len(runs) = 2
    /\ "metrics.loss" \in DOMAIN data
    /\ data["metrics.loss"] = <<NaN, Float("1.2")>>
    /\ "params.k" \in DOMAIN data
    /\ data["params.k"] = <<None, Str("v")>>
    /\ "tags.tag" \in DOMAIN data
    /\ data["tags.tag"] = <<Str("value"), Str("v2")>>

(* C3: after the loop has processed n runs, every fixed-column list and     *)
(* every tracked params / metrics / tags list has exactly n entries, and    *)
(* every column of the returned table has one entry per run.                *)
C3_Rectangular ==
    /\ \A c \in DOMAIN info : Len(info[c]) = i
    /\ \A key \in DOMAIN params : Len(params[key]) = i
    /\ \A key \in DOMAIN metrics : Len(metrics[key]) = i
    /\ \A key \in DOMAIN tags : Len(tags[key]) = i
    /\ Returned => \A c \in DOMAIN data : Len(data[c]) = Len(runs)

C3_Witness ==
    /\ pc = "loop"
    /\ i = 2
    /\ \E key \in DOMAIN params : key \notin DOMAIN runs[1].data.params
    /\ \E key \in DOMAIN metrics : key \notin DOMAIN runs[1].data.metrics
    /\ \E key \in DOMAIN tags : key \notin DOMAIN runs[1].data.tags

(* C4: the table has one row per run, in input order, and row j's fixed     *)
(* columns are run j's run_id, user_id, 'mlflow.runName' tag or None,       *)
(* 'mlflow.parentRunId' tag or None, and the date/time of the whole epoch   *)
(* second that start_time (milliseconds) falls in.                          *)
C4_FixedColumns ==
    Returned =>
        /\ \A c \in FixedColumns : c \in DOMAIN data /\ Len(data[c]) = Len(runs)
        /\ \A j \in 1..Len(runs) :
              /\ data["run_id"][j] = runs[j].info.run_id
              /\ data["user_id"][j] = runs[j].info.user_id
              /\ data["run_name"][j] =
                    IF "mlflow.runName" \in DOMAIN runs[j].data.tags
                    THEN runs[j].data.tags["mlflow.runName"] ELSE <<"None">>
              /\ data["parent_run_id"][j] =
                    IF "mlflow.parentRunId" \in DOMAIN runs[j].data.tags
                    THEN runs[j].data.tags["mlflow.parentRunId"] ELSE <<"None">>
              /\ data["date"][j][1] = "datetime"
              /\ LET seconds == data["date"][j][2]
                     start_time == runs[j].info.start_time
                 IN  /\ seconds * 1000 <= start_time
                     /\ start_time < (seconds + 1) * 1000

C4_Witness ==
    /\ Returned
    /\ Len(runs) = 2
    /\ data["run_id"] = <<Str("uuid2"), Str("uuid")>>
    /\ data["date"] = <<DateTime(2), DateTime(0)>>
    /\ data["run_name"] = <<Str("name"), None>>
    /\ data["parent_run_id"] = <<None, Str("uuid")>>

(* C5: the column of a key first observed at 0-based run index f starts     *)
(* with f null sentinels, and its entry at index f is that run's value.     *)
FirstObserved(rs, kind, key) ==
    CHOOSE j \in 1..Len(rs) :
        /\ key \in PivotKeys(rs[j], kind)
        /\ \A m \in 1..(j - 1) : key \notin PivotKeys(rs[m], kind)

C5_LeadingNulls ==
    Returned =>
        \A kind \in Kinds : \A key \in AllKeys(runs, kind) :
            LET c == ColumnPrefix(kind) \o key
                first == FirstObserved(runs, kind, key)
            IN  /\ c \in DOMAIN data
                /\ Len(data[c]) >= first
                /\ \A m \in 1..(first - 1) : data[c][m] = NullOf(kind)
                /\ data[c][first] = runs[first].data[kind][key]

C5_Witness ==
    /\ Returned
    /\ Len(runs) = 2
    /\ "k" \in AllKeys(runs, "params")
    /\ "loss" \in AllKeys(runs, "metrics")
    /\ "tag" \in AllKeys(runs, "tags")
    /\ FirstObserved(runs, "params", "k") = 2
    /\ FirstObserved(runs, "metrics", "loss") = 2
    /\ FirstObserved(runs, "tags", "tag") = 2
    /\ data["params.k"][1] = None
    /\ data["metrics.loss"][1] = NaN
    /\ data["tags.tag"][1] = None

(* C6: a tag key that starts with 'mlflow.' is never tracked and never      *)
(* gives a 'tags.*' column, the run-name and parent-run-id keys included.   *)
C6_NoReservedTagColumn ==
    /\ \A key \in DOMAIN tags : ~IsReserved(key)
    /\ Returned => \A c \in DOMAIN data : ~StartsWith(c, "tags.mlflow.")

C6_Witness ==
    /\ Returned
    /\ Len(runs) = 2
    /\ "mlflow.runName" \in DOMAIN runs[1].data.tags
    /\ "mlflow.runName" \in DOMAIN runs[2].data.tags
    /\ "tag" \in DOMAIN runs[1].data.tags
    /\ data["run_name"] = <<Str("name"), Str("name")>>
    /\ "tags.tag" \in DOMAIN data

(* C8: rebuilding one run per row of the table (a key is present when the   *)
(* row's cell is not the column's null sentinel, run_name and parent_run_id *)
(* become the two reserved tags, date becomes start_time) and pivoting      *)
(* these runs gives the same table.                                         *)
RowDict(t, j, kind) ==
    LET present == {c \in DOMAIN t : ColumnKind(c) = kind /\ t[c][j] # NullOf(kind)}
    IN  [key \in {ColumnKey(c) : c \in present} |-> t[ColumnPrefix(kind) \o key][j]]

ReservedTagColumn(key) == IF key = "mlflow.runName" THEN "run_name" ELSE "parent_run_id"

RowReservedTags(t, j) ==
    LET names == {key \in {"mlflow.runName", "mlflow.parentRunId"} :
                     t[ReservedTagColumn(key)][j] # <<"None">>}
    IN  [key \in names |-> t[ReservedTagColumn(key)][j]]

Reconstruct(t) ==
    [j \in 1..Len(t["run_id"]) |->
        [info |-> [run_id     |-> t["run_id"][j],
                   user_id    |-> t["user_id"][j],
                   start_time |-> t["date"][j][2] * 1000],
         data |-> [params  |-> RowDict(t, j, "params"),
                   metrics |-> RowDict(t, j, "metrics"),
                   tags    |-> RowDict(t, j, "tags") @@ RowReservedTags(t, j)]]]

\* C8 as stated: the round trip gives the same table for every input.
C8_Idempotent ==
    Returned => RunsToPandas(Reconstruct(data)) = data

\* every metric key of the input has a value other than nan in some run
NoAllNaNMetric(rs) ==
    \A key \in AllKeys(rs, "metrics") :
        \E j \in 1..Len(rs) :
            /\ key \in DOMAIN rs[j].data.metrics
            /\ rs[j].data.metrics[key] # <<"float", "nan">>

(* C8, amended: the round trip gives the same table for every input in     *)
(* which each metric key has a value other than nan in at least one run (a  *)
(* column of nan values alone reads as all padding and is dropped).         *)
C8_IdempotentUnlessAllNaN ==
    (Returned /\ NoAllNaNMetric(runs)) => RunsToPandas(Reconstruct(data)) = data

C8_Witness ==
    /\ Returned
    /\ Len(runs) = 2
    /\ NoAllNaNMetric(runs)
    /\ "mse" \in DOMAIN runs[1].data.metrics
    /\ runs[1].data.metrics["mse"] = NaN
    /\ "tags.tag" \in DOMAIN data
    /\ "mlflow.user" \in DOMAIN runs[2].data.tags
    /\ runs[2].info.start_time = 2999
    /\ Reconstruct(data) # runs

(* C9: pivoting a permutation of the input gives the same columns, and the  *)
(* row of each run holds the same value in every column as before.          *)
C9_OrderIndependent ==
    Returned =>
        \A perm \in Permutations(1..Len(runs)) :
            LET permuted == [j \in 1..Len(runs) |-> runs[perm[j]]]
                t == RunsToPandas(permuted)
            IN  /\ DOMAIN t = DOMAIN data
                /\ \A c \in DOMAIN t :
                      /\ Len(t[c]) = Len(runs)
                      /\ \A j \in 1..Len(runs) : t[c][j] = data[c][perm[j]]

C9_Witness ==
    /\ Returned
    /\ Len(runs) = 2
    /\ runs[1] # runs[2]
    /\ "params.k" \in DOMAIN data
    /\ data["params.k"] = <<None, Str("v")>>
    /\ RunsToPandas(<<runs[2], runs[1]>>)["params.k"] = <<Str("v"), None>>
    /\ "metrics.mse" \in DOMAIN data

-----------------------------------------------------------------------------
(* What the properties of the facade read off a request *)

MutatingMethods ==
    {"create_experiment", "rename_experiment", "create_run", "log_metric",
     "log_param", "set_tag", "log_batch", "set_terminated", "delete_run",
     "restore_run", "delete_experiment", "restore_experiment"}

MethodsWithRunId ==
    {"log_metric", "log_param", "set_tag", "log_batch", "set_terminated",
     "delete_run", "restore_run"}

\* a metric record as the validator sees it: an omitted timestamp or step
\* has been given its default, which is well formed
MalformedMetric(key, value, timestamp, step) ==
    ~_validate_metric(key, value,
                      IF timestamp = <<"None">> THEN <<"int", 0>> ELSE timestamp,
                      IF step = <<"None">> THEN <<"int", 0>> ELSE step)

\* the request carries a malformed argument of a kind this method validates
ValidatedArgumentMalformed(req) ==
    \/ /\ req.method = "create_experiment"
       /\ \/ ~_validate_experiment_name(req.name)
          \/ ~_validate_experiment_artifact_location(req.artifact_location)
    \/ /\ req.method = "log_metric"
       /\ MalformedMetric(req.key, req.value, req.timestamp, req.step)
    \/ /\ req.method = "log_param"
       /\ ~_validate_param_name(req.key)
    \/ /\ req.method = "set_tag"
       /\ ~_validate_tag_name(req.key)
    \/ /\ req.method = "log_batch"
       /\ \/ \E n \in 1..Len(req.metrics) :
                MalformedMetric(req.metrics[n].key, req.metrics[n].value,
                                req.metrics[n].timestamp, req.metrics[n].step)
          \/ \E n \in 1..Len(req.params) : ~_validate_param_name(req.params[n].key)
          \/ \E n \in 1..Len(req.tags) : ~_validate_tag_name(req.tags[n].key)
    \/ /\ req.method = "get_run"
       /\ ~_validate_run_id(req.run_id)

\* the request carries a malformed argument of any of the kinds the
\* validators know: run id, names, metric record, experiment name, location
AnyArgumentMalformed(req) ==
    \/ ValidatedArgumentMalformed(req)
    \/ /\ req.method \in MethodsWithRunId
       /\ ~_validate_run_id(req.run_id)
    \/ /\ req.method = "rename_experiment"
       /\ ~_validate_experiment_name(req.new_name)

\* C7 as stated: a malformed argument of any mutating call aborts the call
\* before the store is reached.
C7_MalformedNeverReachesStore ==
    (request.method \in MutatingMethods /\ AnyArgumentMalformed(request))
        => (store_calls = <<>> /\ outcome = "raised")

(* C7, amended: create_experiment, log_metric, log_param, set_tag and       *)
(* log_batch validate experiment name and artifact location, metric        *)
(* records, parameter names and tag names before the store call, and a     *)
(* malformed one aborts the call with no store call; every other argument  *)
(* of a mutating call, run ids included, goes to the store in one call     *)
(* (only get_run validates its run id).                                    *)
C7_ValidatedArgumentsAbort ==
    request.method \in MutatingMethods \cup {"get_run"} =>
        IF ValidatedArgumentMalformed(request)
        THEN store_calls = <<>> /\ outcome = "raised"
        ELSE Len(store_calls) = 1 /\ outcome = "returned"

C7_Witness ==
    /\ request.method = "log_batch"
    /\ request.run_id \in WellFormedRunIds
    /\ request.metrics = <<GoodMetric>>
    /\ Len(request.params) = 1
    /\ _validate_param_name(request.params[1].key)
    /\ Len(request.tags) = 2
    /\ ~_validate_tag_name(request.tags[2].key)
    /\ store_calls = <<>>
    /\ outcome = "raised"

(* C10: a start_time given to create_run and an end_time given to           *)
(* set_terminated reach the store unchanged, the value 0 included; the      *)
(* current time is used only when the argument is not given.                *)
C10_ProvidedTimeForwarded ==
    /\ (request.method = "create_run" /\ request.start_time # <<"None">>) =>
          /\ Len(store_calls) = 1
          /\ store_calls[1].method = "create_run"
          /\ store_calls[1].kwargs.start_time = request.start_time
    /\ (request.method = "set_terminated" /\ request.end_time # <<"None">>) =>
          /\ Len(store_calls) = 1
          /\ store_calls[1].method = "update_run_info"
          /\ store_calls[1].kwargs.end_time = request.end_time

(* C11: search_runs makes exactly one store.search_runs call; its           *)
(* experiment_ids is a list: a single int or string id wrapped into a      *)
(* one-element list, a list as given; filter_string, run_view_type,        *)
(* max_results and order_by are the arguments as given, or "",             *)
(* ACTIVE_ONLY, SEARCH_MAX_RESULTS_DEFAULT and None when left out.         *)
GivenOr(arg, default) == IF arg = <<"omitted">> THEN default ELSE arg

C11_SearchRunsForwards ==
    request.method = "search_runs" =>
        /\ outcome = "returned"
        /\ Len(store_calls) = 1
        /\ store_calls[1].method = "search_runs"
        /\ LET sent == store_calls[1].kwargs
           IN  /\ DOMAIN sent = {"experiment_ids", "filter_string", "run_view_type",
                                 "max_results", "order_by"}
               /\ sent.experiment_ids[1] = "list"
               /\ sent.experiment_ids =
                     IF request.experiment_ids[1] = "list"
                     THEN request.experiment_ids
                     ELSE <<"list", <<request.experiment_ids>>>>
               /\ sent.filter_string = GivenOr(request.filter_string, <<"str", "">>)
               /\ sent.run_view_type =
                     GivenOr(request.run_view_type, <<"ViewType", "ACTIVE_ONLY">>)
               /\ sent.max_results =
                     GivenOr(request.max_results, <<"name", "SEARCH_MAX_RESULTS_DEFAULT">>)
               /\ sent.order_by = GivenOr(request.order_by, <<"None">>)

C11_Witness ==
    /\ request.method = "search_runs"
    /\ request.experiment_ids = Str("abc")
    /\ request.filter_string = Omitted
    /\ request.run_view_type = Omitted
    /\ request.max_results = Omitted
    /\ request.order_by = List(<<Str("a"), Str("b")>>)
    /\ Len(store_calls) = 1
    /\ store_calls[1].kwargs.experiment_ids = List(<<Str("abc")>>)
    /\ store_calls[1].kwargs.max_results = SEARCH_MAX_RESULTS_DEFAULT

(* C12: when two runs_to_pandas calls on disjoint inputs run with their     *)
(* loop iterations interleaved in any order, each call returns the table    *)
(* it returns when it runs alone.                                           *)
C12_CallsIsolated ==
    \A caller \in DOMAIN calls :
        calls[caller].pc = "done" =>
            calls[caller].data = RunsToPandas(calls[caller].runs)

\* caller 1 has returned while caller 2 is halfway through its loop, and
\* both inputs carry the same keys
C12_Witness ==
    /\ DOMAIN calls = {1, 2}
    /\ calls[1].pc = "done"
    /\ Len(calls[1].runs) = 2
    /\ calls[2].pc = "loop"
    /\ calls[2].i = 1
    /\ Len(calls[2].runs) = 2
    /\ "params.k" \in DOMAIN calls[1].data
    /\ "k" \in DOMAIN calls[2].runs[1].data.params
    /\ \A m \in 1..2, n \in 1..2 : calls[1].runs[m] # calls[2].runs[n]

\* the input of scenario C: run 0 has the param param=value, run 1 has the
\* params param2=val and k=v
ScenarioC ==
    /\ Len(runs) = 2
    /\ runs[1].data.params = "param" :> Str("value")
    /\ runs[2].data.params = "param2" :> Str("val") @@ "k" :> Str("v")

\* the number of entries equal to null at the head of a column
LeadingNulls(column, null) ==
    CHOOSE n \in 0..Len(column) :
        /\ \A m \in 1..n : column[m] = null
        /\ n = Len(column) \/ column[n + 1] # null

ScenarioCValues ==
    /\ {"params.param", "params.param2", "params.k"} \subseteq DOMAIN data
    /\ data["params.param"] = <<Str("value"), None>>
    /\ data["params.param2"] = <<None, Str("val")>>
    /\ data["params.k"] = <<None, Str("v")>>

(* C13, as stated: on the input of scenario C the table has params.param =  *)
(* [value, None], params.param2 = [None, val], params.k = [None, v], and    *)
(* the param and k columns each have exactly 1 leading null.                *)
C13_ScenarioC ==
    (Returned /\ ScenarioC) =>
        /\ ScenarioCValues
        /\ LeadingNulls(data["params.param"], None) = 1
        /\ LeadingNulls(data["params.k"], None) = 1

(* C13, amended: on the input of scenario C the table has the three columns *)
(* above; the param2 and k columns, both introduced at index 1, each have   *)
(* exactly 1 leading null, and the param column, introduced at index 0, has *)
(* none.                                                                    *)
C13_ScenarioC_Param2AndK ==
    (Returned /\ ScenarioC) =>
        /\ ScenarioCValues
        /\ LeadingNulls(data["params.param2"], None) = 1
        /\ LeadingNulls(data["params.k"], None) = 1
        /\ LeadingNulls(data["params.param"], None) = 0

C13_Witness ==
    /\ Returned
    /\ ScenarioC
    /\ DOMAIN runs[1].data.metrics = {}
    /\ data["params.param"][1] = Str("value")
    /\ data["params.param2"][1] = None

=============================================================================
